---- MODULE Spec2Model ----
(***************************************************************************)
(* Data engine of lab_database_react: the CSV codec (CSVManager.parseCSV,  *)
(* DataManager.dataToCSV), the positional entity mappers, the remote store *)
(* client (GitHubService) and the read-modify-write cycles of the data     *)
(* manager (DataManager.updateData, DataManager.bulkImport).               *)
(*                                                                         *)
(* Text is a sequence of symbols.  A symbol is one of the characters the   *)
(* code tests for (comma, double quote, line feed, carriage return, space, *)
(* a decimal digit) or a word: a non-empty run of other characters, which  *)
(* every string operation of the code treats as an indivisible block.      *)
(***************************************************************************)
EXTENDS Integers, Sequences, FiniteSets, TLC

----------------------------------------------------------------------------
(* Characters *)

COMMA == ","
QUOTE == "\""
NL    == "\n"
CR    == "\r"
SP    == " "

Digits == <<"0", "1", "2", "3", "4", "5", "6", "7", "8", "9">>

IsDigit(c) == \E d \in 1..10 : Digits[d] = c

DigitVal(c) == (CHOOSE d \in 1..10 : Digits[d] = c) - 1

IsSpace(c) == c \in {SP, NL, CR}

----------------------------------------------------------------------------
(* JavaScript values held in record fields: a number, NaN, a string (text) *)
(* or undefined.                                                           *)

Num(n) == [t |-> "num", n |-> n, s |-> <<>>]
Str(s) == [t |-> "str", n |-> 0, s |-> s]
NaN    == [t |-> "nan", n |-> 0, s |-> <<>>]
Undef  == [t |-> "undef", n |-> 0, s |-> <<>>]

\* JavaScript truthiness: 0, NaN, '' and undefined are falsy.
Truthy(v) ==
  \/ v.t = "num" /\ v.n # 0
  \/ v.t = "str" /\ v.s # <<>>

\* a || b
OrElse(a, b) == IF Truthy(a) THEN a ELSE b

RECURSIVE NatToText(_)
NatToText(n) ==
  IF n < 10 THEN <<Digits[n + 1]>>
  ELSE NatToText(n \div 10) \o <<Digits[(n % 10) + 1]>>

\* String(value)
ToText(v) ==
  CASE v.t = "num" -> IF v.n < 0 THEN <<"-">> \o NatToText(0 - v.n) ELSE NatToText(v.n)
    [] v.t = "str" -> v.s
    [] v.t = "nan" -> <<"NaN">>
    [] OTHER -> <<"undefined">>

\* String.prototype.trim
RECURSIVE TrimLeft(_)
TrimLeft(s) ==
  IF s # <<>> /\ IsSpace(Head(s)) THEN TrimLeft(Tail(s)) ELSE s

RECURSIVE TrimRight(_)
TrimRight(s) ==
  IF s # <<>> /\ IsSpace(s[Len(s)]) THEN TrimRight(SubSeq(s, 1, Len(s) - 1)) ELSE s

Trim(s) == TrimRight(TrimLeft(s))

\* value of the leading run of digits of s, continuing from acc
RECURSIVE DigitsValue(_, _)
DigitsValue(s, acc) ==
  IF s # <<>> /\ IsDigit(Head(s))
  THEN DigitsValue(Tail(s), acc * 10 + DigitVal(Head(s)))
  ELSE acc

\* parseInt(x): leading white space is skipped, then the leading digits are
\* read; NaN when there is none (also for undefined).
ParseInt(v) ==
  IF v.t = "num" THEN v
  ELSE IF v.t # "str" THEN NaN
  ELSE LET s == TrimLeft(v.s) IN
       IF s # <<>> /\ IsDigit(Head(s)) THEN Num(DigitsValue(s, 0)) ELSE NaN

\* parseFloat(x) on texts without a decimal point or exponent
ParseFloat(v) == ParseInt(v)

\* row[k] with k counted from 0 as in the code; undefined past the end
At(row, k) == IF k + 1 <= Len(row) THEN Str(row[k + 1]) ELSE Undef

\* item[header]
Prop(item, header) == IF header \in DOMAIN item THEN item[header] ELSE Undef

\* { ...a, ...b }
Spread(a, b) ==
  [k \in (DOMAIN a) \cup (DOMAIN b) |-> IF k \in DOMAIN b THEN b[k] ELSE a[k]]

----------------------------------------------------------------------------
(* CSV parser *)

SomeNonEmpty(row) == \E k \in 1..Len(row) : Len(row[k]) > 0

StripQuotes(f) ==
  IF f # <<>> /\ f[1] = QUOTE /\ f[Len(f)] = QUOTE
  THEN SubSeq(f, 2, Len(f) - 1)
  ELSE f

\* rows.push(currentRow) under its guard, after the last field is pushed
PushRow(rows, row, fld) ==
  LET full == Append(row, Trim(fld)) IN
  IF SomeNonEmpty(full) THEN Append(rows, full) ELSE rows

\* the variables of the while loop of parseCSVRows
ScanStart ==
  [i |-> 1, rows |-> <<>>, row |-> <<>>, fld |-> <<>>, inQuotes |-> FALSE]

\* one iteration of the while loop, for the position st.i
ScanChar(st, text) ==
  LET i  == st.i
      ch == text[i]
  IN
  IF ch = QUOTE
  THEN IF st.inQuotes /\ i + 1 <= Len(text) /\ text[i + 1] = QUOTE
       THEN [st EXCEPT !.fld = Append(@, QUOTE), !.i = i + 2]
       ELSE [st EXCEPT !.inQuotes = ~@, !.i = i + 1]
  ELSE IF ch = COMMA /\ ~st.inQuotes
  THEN [st EXCEPT !.row = Append(@, Trim(st.fld)), !.fld = <<>>, !.i = i + 1]
  ELSE IF (ch = NL \/ ch = CR) /\ ~st.inQuotes
  THEN LET skip == IF ch = CR /\ i + 1 <= Len(text) /\ text[i + 1] = NL THEN 1 ELSE 0 IN
       IF Trim(st.fld) # <<>> \/ Len(st.row) > 0
       THEN [st EXCEPT !.rows = PushRow(st.rows, st.row, st.fld), !.row = <<>>,
                       !.fld = <<>>, !.i = i + 1 + skip]
       ELSE [st EXCEPT !.i = i + 1 + skip]
  ELSE [st EXCEPT !.fld = Append(@, ch), !.i = i + 1]

\* the iterations of the loop for the positions lo..hi, in order (a position
\* the loop jumps over is left alone); the range is halved, the first half
\* evaluated before the second, to keep the evaluation shallow
RECURSIVE ScanRange(_, _, _, _)
ScanRange(st, text, lo, hi) ==
  IF lo > hi THEN st
  ELSE IF lo = hi THEN (IF st.i = lo THEN ScanChar(st, text) ELSE st)
  ELSE LET mid  == (lo + hi) \div 2
           left == ScanRange(st, text, lo, mid)
       IN  IF left.i > hi THEN left ELSE ScanRange(left, text, mid + 1, hi)

parseCSVRows(csvText) ==
  LET st   == ScanRange(ScanStart, csvText, 1, Len(csvText))
      rows == IF Trim(st.fld) # <<>> \/ Len(st.row) > 0
              THEN PushRow(st.rows, st.row, st.fld)
              ELSE st.rows
  IN  [r \in 1..Len(rows) |-> [k \in 1..Len(rows[r]) |-> StripQuotes(rows[r][k])]]


----------------------------------------------------------------------------
(* CSV serializer *)

RECURSIVE Join(_, _)
Join(parts, sep) ==
  IF parts = <<>> THEN <<>>
  ELSE IF Len(parts) = 1 THEN parts[1]
  ELSE parts[1] \o <<sep>> \o Join(Tail(parts), sep)

\* a serializer that finds no character to quote
Includes_Never(s, c) == FALSE

Includes(s, c) == \E k \in 1..Len(s) : s[k] = c

\* value.replace(/[\r\n]+/g, ' ')
RECURSIVE FlattenNewlines(_)
FlattenNewlines(s) ==
  IF s = <<>> THEN <<>>
  ELSE IF Head(s) \in {NL, CR}
  THEN LET rest == FlattenNewlines(Tail(s)) IN
       IF Len(s) > 1 /\ s[2] \in {NL, CR} THEN rest ELSE <<SP>> \o rest
  ELSE <<Head(s)>> \o FlattenNewlines(Tail(s))

\* value.replace(/"/g, '""')
RECURSIVE DoubleQuotes(_)
DoubleQuotes(s) ==
  IF s = <<>> THEN <<>>
  ELSE IF Head(s) = QUOTE THEN <<QUOTE, QUOTE>> \o DoubleQuotes(Tail(s))
  ELSE <<Head(s)>> \o DoubleQuotes(Tail(s))

\* one cell of dataToCSV
CellToCSV(item, header) ==
  LET value == FlattenNewlines(ToText(OrElse(Prop(item, header), Str(<<>>)))) IN
  IF header = "user_name" \/ header = "organism_name" THEN <<>>
  ELSE IF Includes(value, COMMA) \/ Includes(value, QUOTE) \/ Includes(value, NL)
  THEN <<QUOTE>> \o DoubleQuotes(value) \o <<QUOTE>>
  ELSE value

RowToCSV(item, headers) ==
  Join([h \in 1..Len(headers) |-> CellToCSV(item, headers[h])], COMMA)

dataToCSV(data, headers) ==
  Join(<<Join([h \in 1..Len(headers) |-> <<headers[h]>>], COMMA)>>
         \o [r \in 1..Len(data) |-> RowToCSV(data[r], headers)], NL)

----------------------------------------------------------------------------
(* Entity mappers.  A mapper is given as the list of its fields, each with  *)
(* the conversion the code applies and the column (counted from 0) it reads:*)
(*   "int"      parseInt(row[k]) || 0        "rawint"   parseInt(row[k])    *)
(*   "float"    parseFloat(row[k]) || 0      "rawfloat" parseFloat(row[k])  *)
(*   "str"      row[k] || ''                 "rawstr"   row[k]              *)
(*   "blank"    ''                      "method"   row[k].trim()           *)
(* The first eight are the mappers of the data manager, the "local" ones    *)
(* those of the local fallback source.                                      *)

celllineFields ==
  << <<"id", "int", 0>>, <<"user_id", "int", 1>>,
     <<"user_name", "blank", 0>>, <<"organism_id", "int", 2>>,
     <<"organism_name", "blank", 0>>, <<"refid", "str", 3>>,
     <<"genotype", "str", 4>>, <<"date", "str", 5>>, <<"source", "str", 6>>,
     <<"link", "str", 7>>, <<"copies", "int", 8>>,
     <<"leftcopies", "int", 9>>, <<"parent", "str", 10>>,
     <<"reference", "str", 11>>, <<"sequence", "str", 12>>,
     <<"comment", "str", 13>>, <<"location", "str", 14>> >>

organismFields ==
  << <<"id", "int", 0>>, <<"name", "str", 1>> >>

vendorFields ==
  << <<"id", "int", 0>>, <<"name", "str", 1>> >>

categoryFields ==
  << <<"id", "int", 0>>, <<"name", "str", 1>> >>

userFields ==
  << <<"id", "int", 0>>, <<"username", "str", 1>>,
     <<"first_name", "str", 2>>, <<"last_name", "str", 3>>,
     <<"email", "str", 4>> >>

orderFields ==
  << <<"id", "int", 0>>, <<"user_id", "int", 1>>,
     <<"user_name", "blank", 0>>, <<"vendor_id", "int", 2>>,
     <<"vendor_name", "blank", 0>>, <<"category_id", "int", 3>>,
     <<"category_name", "blank", 0>>, <<"catalog", "str", 4>>,
     <<"qty", "int", 5>>, <<"desc", "str", 6>>, <<"unitprice", "float", 7>>,
     <<"unit", "str", 8>>, <<"link", "str", 9>>, <<"orderdate", "str", 10>>,
     <<"receiptdate", "str", 11>>, <<"comment", "str", 12>>,
     <<"location", "str", 13>> >>

oligoFields ==
  << <<"id", "int", 0>>, <<"user_id", "int", 1>>,
     <<"user_name", "blank", 0>>, <<"organism_id", "int", 2>>,
     <<"organism_name", "blank", 0>>, <<"refid", "str", 3>>,
     <<"desc", "str", 4>>, <<"seq", "str", 5>>, <<"date", "str", 6>>,
     <<"source", "str", 7>>, <<"link", "str", 8>>, <<"reference", "str", 9>>,
     <<"usefulseq", "str", 10>>, <<"comment", "str", 11>>,
     <<"location", "str", 12>>, <<"length", "int", 13>>,
     <<"meltingtemp", "float", 14>>, <<"gc", "float", 15>> >>

plasmidFields ==
  << <<"id", "int", 0>>, <<"user_id", "int", 1>>,
     <<"user_name", "blank", 0>>, <<"organism_id", "int", 2>>,
     <<"organism_name", "blank", 0>>, <<"refid", "str", 3>>,
     <<"genotype", "str", 4>>, <<"date", "str", 5>>, <<"source", "str", 6>>,
     <<"link", "str", 7>>, <<"replicates", "int", 8>>,
     <<"leftover", "int", 9>>, <<"parent", "str", 10>>,
     <<"reference", "str", 11>>, <<"sequence", "str", 12>>,
     <<"resistance", "str", 13>>, <<"temperature", "str", 14>>,
     <<"copynumber", "str", 15>>, <<"comment", "str", 16>>,
     <<"location", "str", 17>> >>

localUserFields ==
  << <<"id", "rawint", 0>>, <<"username", "rawstr", 1>>,
     <<"first_name", "rawstr", 2>>, <<"last_name", "rawstr", 3>>,
     <<"email", "rawstr", 4>> >>

localOrganismFields ==
  << <<"id", "rawint", 0>>, <<"name", "rawstr", 1>> >>

localVendorFields ==
  << <<"id", "rawint", 0>>, <<"name", "rawstr", 1>> >>

localCategoryFields ==
  << <<"id", "rawint", 0>>, <<"name", "rawstr", 1>> >>

localCelllineFields ==
  << <<"id", "int", 0>>, <<"user_id", "int", 1>>, <<"user_name", "str", 2>>,
     <<"organism_id", "int", 3>>, <<"organism_name", "str", 4>>,
     <<"refid", "str", 5>>, <<"genotype", "str", 6>>, <<"date", "str", 7>>,
     <<"source", "str", 8>>, <<"link", "str", 9>>, <<"copies", "int", 10>>,
     <<"leftcopies", "int", 11>>, <<"parent", "str", 12>>,
     <<"reference", "str", 13>>, <<"sequence", "str", 14>>,
     <<"comment", "str", 15>>, <<"location", "str", 16>> >>

localOrderFields ==
  << <<"id", "rawint", 0>>, <<"user_id", "int", 1>>,
     <<"user_name", "rawstr", 2>>, <<"vendor_id", "rawint", 3>>,
     <<"vendor_name", "rawstr", 4>>, <<"category_id", "rawint", 5>>,
     <<"category_name", "rawstr", 6>>, <<"catalog", "rawstr", 7>>,
     <<"qty", "rawint", 8>>, <<"desc", "rawstr", 9>>,
     <<"unitprice", "rawfloat", 10>>, <<"unit", "rawstr", 11>>,
     <<"link", "rawstr", 12>>, <<"orderdate", "rawstr", 13>>,
     <<"receiptdate", "rawstr", 14>>, <<"comment", "rawstr", 15>>,
     <<"location", "rawstr", 16>> >>

localOligoFields ==
  << <<"id", "rawint", 0>>, <<"user_id", "int", 1>>,
     <<"user_name", "rawstr", 2>>, <<"organism_id", "rawint", 3>>,
     <<"organism_name", "rawstr", 4>>, <<"refid", "rawstr", 5>>,
     <<"desc", "rawstr", 6>>, <<"seq", "rawstr", 7>>,
     <<"date", "rawstr", 8>>, <<"source", "rawstr", 9>>,
     <<"link", "rawstr", 10>>, <<"reference", "rawstr", 11>>,
     <<"usefulseq", "rawstr", 12>>, <<"comment", "rawstr", 13>>,
     <<"location", "rawstr", 14>>, <<"length", "rawint", 15>>,
     <<"meltingtemp", "rawint", 16>>, <<"gc", "rawint", 17>> >>

localPlasmidFields ==
  << <<"id", "rawint", 0>>, <<"user_id", "int", 1>>,
     <<"user_name", "rawstr", 2>>, <<"organism_id", "rawint", 3>>,
     <<"organism_name", "rawstr", 4>>, <<"refid", "rawstr", 5>>,
     <<"genotype", "rawstr", 6>>, <<"date", "rawstr", 7>>,
     <<"source", "rawstr", 8>>, <<"link", "rawstr", 9>>,
     <<"replicates", "rawint", 10>>, <<"leftover", "rawint", 11>>,
     <<"parent", "rawstr", 12>>, <<"reference", "rawstr", 13>>,
     <<"sequence", "rawstr", 14>>, <<"resistance", "rawstr", 15>>,
     <<"temperature", "rawstr", 16>>, <<"copynumber", "rawstr", 17>>,
     <<"comment", "rawstr", 18>>, <<"location", "rawstr", 19>> >>

FieldValue(kind, row, k) ==
  CASE kind = "int"      -> OrElse(ParseInt(At(row, k)), Num(0))
    [] kind = "float"    -> OrElse(ParseFloat(At(row, k)), Num(0))
    [] kind = "str"      -> OrElse(At(row, k), Str(<<>>))
    [] kind = "rawint"   -> ParseInt(At(row, k))
    [] kind = "rawfloat" -> ParseFloat(At(row, k))
    [] kind = "rawstr"   -> At(row, k)
    [] kind = "method"   -> Str(Trim(At(row, k).s))
    [] OTHER             -> Str(<<>>)

FieldNames(fields) == {fields[k][1] : k \in 1..Len(fields)}

\* the mapper throws on the row: a method is called on a cell the row does
\* not have (TypeError on undefined)
MapThrows(fields, row) ==
  \E j \in 1..Len(fields) : fields[j][2] = "method" /\ At(row, fields[j][3]) = Undef

\* the record a mapper builds from a row
MapRow(fields, row) ==
  [f \in FieldNames(fields) |->
     LET k == CHOOSE j \in 1..Len(fields) : fields[j][1] = f IN
     FieldValue(fields[k][2], row, fields[k][3])]

Entities ==
  {"celllines", "orders", "oligos", "plasmids", "organisms", "vendors", "categories", "users"}

\* the entities read with relationship resolution (and accepted by bulkImport)
RecordEntities == {"celllines", "orders", "oligos", "plasmids"}

\* the mapper the data manager passes to parseCSV for the entity
MapperFields(entity) ==
  CASE entity = "celllines"  -> celllineFields
    [] entity = "organisms"  -> organismFields
    [] entity = "vendors"    -> vendorFields
    [] entity = "categories" -> categoryFields
    [] entity = "users"      -> userFields
    [] entity = "orders"     -> orderFields
    [] entity = "oligos"     -> oligoFields
    [] entity = "plasmids"   -> plasmidFields

\* the mapper of the local fallback source for the entity
LocalFields(entity) ==
  CASE entity = "celllines"  -> localCelllineFields
    [] entity = "organisms"  -> localOrganismFields
    [] entity = "vendors"    -> localVendorFields
    [] entity = "categories" -> localCategoryFields
    [] entity = "users"      -> localUserFields
    [] entity = "orders"     -> localOrderFields
    [] entity = "oligos"     -> localOligoFields
    [] entity = "plasmids"   -> localPlasmidFields

\* a header list that persists a resolved name column
getHeadersForEntity_WithNames(entity) ==
  IF entity \in {"organisms", "vendors", "categories"}
  THEN <<"id", "name", "vendor_name">>
  ELSE <<"id", "user_id", "vendor_name", "location">>

getHeadersForEntity(entity) ==
  CASE entity = "celllines" ->
         <<"id", "user_id", "organism_id", "refid", "genotype", "date", "source", "link",
           "copies", "leftcopies", "parent", "reference", "sequence", "comment", "location">>
    [] entity = "organisms"  -> <<"id", "name">>
    [] entity = "vendors"    -> <<"id", "name">>
    [] entity = "categories" -> <<"id", "name">>
    [] entity = "users"      -> <<"id", "username", "first_name", "last_name", "email">>
    [] entity = "orders" ->
         <<"id", "user_id", "vendor_id", "category_id", "catalog", "qty", "desc", "unitprice",
           "unit", "link", "orderdate", "receiptdate", "comment", "location">>
    [] entity = "oligos" ->
         <<"id", "user_id", "organism_id", "refid", "desc", "seq", "date", "source", "link",
           "reference", "usefulseq", "comment", "location", "length", "meltingtemp", "gc">>
    [] entity = "plasmids" ->
         <<"id", "user_id", "organism_id", "refid", "genotype", "date", "source", "link",
           "replicates", "leftover", "parent", "reference", "sequence", "resistance",
           "temperature", "copynumber", "comment", "location">>

\* a mapper a caller may pass to parseCSV: the mapper of the data manager
\* with a method call on every string cell
CallerFields(entity) ==
  [k \in 1..Len(MapperFields(entity)) |->
     IF MapperFields(entity)[k][2] = "str"
     THEN <<MapperFields(entity)[k][1], "method", MapperFields(entity)[k][3]>>
     ELSE MapperFields(entity)[k]]

\* what the catch inside parseCSV returns for a row the mapper throws on
Null == [null |-> TRUE]

\* a parseCSV without the try: one throwing row aborts the load
parseCSV_Abort(csvText, mapper) ==
  IF Trim(csvText) = <<>> THEN <<>>
  ELSE LET rows == parseCSVRows(csvText) IN
       IF Len(rows) <= 1 \/ \E r \in 2..Len(rows) : MapThrows(mapper, rows[r]) THEN <<>>
       ELSE [r \in 1..(Len(rows) - 1) |-> MapRow(mapper, rows[r + 1])]

\* parseCSV with a mapper, given as its field list: the rows after the first
\* are mapped, a row the mapper throws on becomes null, the nulls are filtered
\* out
parseCSV(csvText, mapper) ==
  IF Trim(csvText) = <<>> THEN <<>>
  ELSE LET rows == parseCSVRows(csvText)
           mapped == [r \in 1..(Len(rows) - 1) |->
                        IF MapThrows(mapper, rows[r + 1]) THEN Null
                        ELSE MapRow(mapper, rows[r + 1])]
           notNull(item) == item # Null
       IN  IF Len(rows) <= 1 THEN <<>> ELSE SelectSeq(mapped, notNull)

\* the data manager's parse of a remote file of the entity
ParseRemote(entity, csvText) == parseCSV(csvText, MapperFields(entity))

\* the fallback source's parse of its file of the entity
ParseLocal(entity, csvText) == parseCSV(csvText, LocalFields(entity))

----------------------------------------------------------------------------
(* The mutations of updateData and bulkImport *)

\* a === b
StrictEq(a, b) == a.t # "nan" /\ a = b

\* Number(x) as Math.max applies it to its arguments
ToNumber(v) ==
  CASE v.t = "num" -> v
    [] v.t = "str" /\ v.s = <<>> -> Num(0)
    [] v.t = "str" /\ (\A k \in 1..Len(v.s) : IsDigit(v.s[k])) -> Num(DigitsValue(v.s, 0))
    [] OTHER -> NaN

RECURSIVE MaxOf(_, _)
MaxOf(vals, acc) ==
  IF vals = <<>> THEN acc
  ELSE LET h == ToNumber(Head(vals)) IN
       IF h.t = "nan" \/ acc.t = "nan" THEN NaN
       ELSE MaxOf(Tail(vals), IF h.n > acc.n THEN h ELSE acc)

\* Math.max(...currentData.map(item => item.id), 0)
MaxId(currentData) ==
  MaxOf([r \in 1..Len(currentData) |-> Prop(currentData[r], "id")], Num(0))

\* x + n for a number n
Plus(v, n) == IF v.t = "num" THEN Num(v.n + n) ELSE NaN

\* updatedData.findIndex(item => item.id === request.id), 0 for -1
FindIndex(data, id) ==
  IF \E r \in 1..Len(data) : StrictEq(Prop(data[r], "id"), id)
  THEN CHOOSE r \in 1..Len(data) :
         /\ StrictEq(Prop(data[r], "id"), id)
         /\ \A q \in 1..(r - 1) : ~StrictEq(Prop(data[q], "id"), id)
  ELSE 0

\* an add that lets request.data override the allocated id
ApplyAdd_KeepDataId(currentData, request) ==
  Append(currentData, Spread([id |-> Plus(MaxId(currentData), 1)], request.data))

ApplyAdd(currentData, request) ==
  Append(currentData, Spread(request.data, [id |-> Plus(MaxId(currentData), 1)]))

\* an update that replaces the record by request.data and keeps only its id
ApplyUpdate_ReplaceWhole(currentData, request) ==
  LET updateIndex == FindIndex(currentData, request.id) IN
  [currentData EXCEPT ![updateIndex] = Spread([id |-> currentData[updateIndex].id], request.data)]

ApplyUpdate(currentData, request) ==
  LET updateIndex == FindIndex(currentData, request.id) IN
  [currentData EXCEPT ![updateIndex] = Spread(currentData[updateIndex], request.data)]

ApplyDelete(currentData, request) ==
  LET keep(item) == ~StrictEq(Prop(item, "id"), request.id) IN
  SelectSeq(currentData, keep)

\* a bulk import that numbers the rows from the maximum id itself
ApplyBulk_FromMax(currentData, importData) ==
  LET maxId == MaxId(currentData) IN
  currentData \o
    [index \in 1..Len(importData) |->
       Spread(importData[index], [id |-> Plus(maxId, index - 1)])]

\* processedData and mergedData of bulkImport
ApplyBulk(currentData, importData) ==
  LET maxId == MaxId(currentData) IN
  currentData \o
    [index \in 1..Len(importData) |->
       Spread(importData[index], [id |-> Plus(maxId, index)])]

\* a cycle that throws for a delete of a missing id as well
Throws_AnyMissing(currentData, request) ==
  request.type \in {"update", "delete"} /\ FindIndex(currentData, request.id) = 0

\* the update of type 'update' throws when no record has the id
Throws(currentData, request) ==
  request.type = "update" /\ FindIndex(currentData, request.id) = 0

Mutate(currentData, request) ==
  CASE request.type = "add"    -> ApplyAdd(currentData, request)
    [] request.type = "update" -> ApplyUpdate(currentData, request)
    [] request.type = "delete" -> ApplyDelete(currentData, request)
    [] request.type = "bulk"   -> ApplyBulk(currentData, request.rows)

----------------------------------------------------------------------------
(* Relationship resolution against the reference tables *)

\* reference tables the resolution step loads: id -> name
ReferenceNames(kind) ==
  CASE kind = "user"     -> [id \in {1} |-> <<"alice">>]
    [] kind = "organism" -> [id \in {1} |-> <<"yeast">>]
    [] kind = "vendor"   -> [id \in {1} |-> <<"acme">>]
    [] kind = "category" -> [id \in {1} |-> <<"reagent">>]

\* a lookup without the default: map.get(id)
Lookup_Undefined(kind, id) ==
  IF id.t = "num" /\ id.n \in DOMAIN ReferenceNames(kind)
  THEN Str(ReferenceNames(kind)[id.n])
  ELSE Undef

\* map.get(id) || ''
Lookup(kind, id) ==
  IF id.t = "num" /\ id.n \in DOMAIN ReferenceNames(kind)
  THEN Str(ReferenceNames(kind)[id.n])
  ELSE Str(<<>>)

\* the reference kinds each record entity resolves
ResolvedKinds(entity) ==
  IF entity = "orders" THEN {"user", "vendor", "category"} ELSE {"user", "organism"}

NameField(kind) ==
  CASE kind = "user" -> "user_name" [] kind = "organism" -> "organism_name"
    [] kind = "vendor" -> "vendor_name" [] kind = "category" -> "category_name"

IdField(kind) ==
  CASE kind = "user" -> "user_id" [] kind = "organism" -> "organism_id"
    [] kind = "vendor" -> "vendor_id" [] kind = "category" -> "category_id"

NameFields == {"user_name", "organism_name", "vendor_name", "category_name"}

\* resolve<Entity>Relationships when every reference table has loaded
ResolveNames(entity, records) ==
  [r \in 1..Len(records) |->
     Spread(records[r],
            [f \in {NameField(k) : k \in ResolvedKinds(entity)} |->
               LET k == CHOOSE kk \in ResolvedKinds(entity) : NameField(kk) = f IN
               Lookup(k, Prop(records[r], IdField(k)))])]

\* a resolution that attaches the names of the tables that did load
Resolve_Partial(entity, records, loaded) ==
  [r \in 1..Len(records) |->
     Spread(records[r],
            [f \in {NameField(k) : k \in loaded} |->
               LET k == CHOOSE kk \in loaded : NameField(kk) = f IN
               Lookup(k, Prop(records[r], IdField(k)))])]

\* resolve<Entity>Relationships: the names are attached when every getter of
\* Promise.all answered; when one rejected, the catch returns the records as
\* they are
Resolve(entity, records, loaded) ==
  IF loaded = ResolvedKinds(entity) THEN ResolveNames(entity, records) ELSE records

----------------------------------------------------------------------------
(* Remote store: the content API behind GitHubService.request *)

\* btoa(unescape(encodeURIComponent(content))) sends the UTF-8 bytes of the
\* content and atob returns one character per stored byte: a word outside
\* ASCII comes back as the Latin-1 view of its UTF-8 bytes.
Latin1View(sym) ==
  CASE sym = "e-acute" -> "e-acute/latin1"
    [] sym = "e-acute/latin1" -> "e-acute/latin1/latin1"
    [] OTHER -> sym

\* the stored bytes of a committed content, as atob returns them
EncodeContent(content) == [k \in 1..Len(content) |-> Latin1View(content[k])]

\* the blob sha is a hash of the content: an injective function of it
ShaOf(content) == <<"sha">> \o content

NoSha == <<>>

Err(kind, status) == [kind |-> kind, status |-> status]
NoErr == Err("none", 0)

\* a catch that takes every client error for "not found"
Includes404_AnyClientError(error) == error.kind = "api" /\ error.status \in 400..499

\* error.message.includes('404'): only the message of a 404 answer,
\* `GitHub API error: 404 ...`, holds it
Includes404(error) == error.kind = "api" /\ error.status = 404

\* status the store answers a GET of the file with
GetStatus(token, file) ==
  IF token = "bad" THEN 401
  ELSE IF file.exists THEN 200 ELSE 404

\* status the store answers a PUT of the file with: a token without write
\* access gets 404, a stale sha 409, a missing or unexpected sha 422
PutStatus(token, file, sha) ==
  IF token = "bad" THEN 401
  ELSE IF token = "readonly" THEN 404
  ELSE IF file.exists
       THEN IF sha = NoSha THEN 422
            ELSE IF sha = ShaOf(file.content) THEN 200 ELSE 409
       ELSE IF sha = NoSha THEN 201 ELSE 422

Ok(status) == status \in {200, 201}

\* answers of one request: the store's answer, or a failure that leaves the
\* store untouched (5xx, network error)
Answers(status) == {status, 500}

\* the error request() throws for a non-2xx answer
ErrorOf(status) == IF status = 401 THEN Err("auth_expired", 401) ELSE Err("api", status)

\* the base64 text the content API carries for a content, and atob of it
Btoa(content) == IF content = <<>> THEN <<>> ELSE <<"base64:">> \o content

Atob(text) == IF text # <<>> /\ Head(text) = "base64:" THEN Tail(text) ELSE text

\* no body: the answer of a PUT, or of a request that failed
NoFile == [content |-> <<>>, encoding |-> "none", download_url |-> FALSE]

\* no fetch of a download link
NoDownload == [ok |-> FALSE, text |-> <<>>]

\* the bodies the content API may answer a GET of the file with: the content
\* inline in base64, inline as it is, left out with a download link (a large
\* file), or left out without one
FileBodies(file) ==
  { [content |-> Btoa(file.content), encoding |-> "base64", download_url |-> TRUE],
    [content |-> file.content, encoding |-> "none", download_url |-> TRUE],
    [content |-> <<>>, encoding |-> "none", download_url |-> TRUE],
    NoFile }

\* the outcomes of fetch(file.download_url), when getCSVContent runs it
Downloads(body, file) ==
  IF body.content = <<>> /\ body.download_url
  THEN {[ok |-> TRUE, text |-> file.content], NoDownload}
  ELSE {NoDownload}

\* a getCSVContent that looks at the inline content only
getCSVContent_InlineOnly(body, raw) ==
  [error |-> NoErr,
   text  |-> IF body.encoding = "base64" THEN Atob(body.content) ELSE body.content]

\* getCSVContent, from the body getFile returned: the text, or the error thrown
getCSVContent(body, raw) ==
  IF body.content # <<>>
  THEN [error |-> NoErr,
        text  |-> IF body.encoding = "base64" THEN Atob(body.content) ELSE body.content]
  ELSE IF body.download_url
  THEN IF raw.ok THEN [error |-> NoErr, text |-> raw.text]
       ELSE [error |-> Err("download_failed", 0), text |-> <<>>]
  ELSE [error |-> Err("unable_to_decode", 0), text |-> <<>>]

\* a client that goes on without a token
CurrentToken_Anonymous(stored, config) ==
  IF stored # "none" THEN stored ELSE IF config # "none" THEN config ELSE "anonymous"

\* localStorage.getItem('github_token') || this.config.token
CurrentToken(stored, config) == IF stored # "none" THEN stored ELSE config

\* a catch branch that creates the file whatever the error
AfterError_AlwaysCreate(error) == "create"

\* a catch branch that does not rethrow
AfterError_Swallowed(error) == IF Includes404(error) THEN "create" ELSE "resolved"

\* where updateCSV goes when the getFile or the PUT carrying the sha throws
AfterError(error) == IF Includes404(error) THEN "create" ELSE "rejected"

----------------------------------------------------------------------------
(* State *)

VARIABLES
  entity,       \* the entity kind whose file data/<entity>.csv the cycles write
  remote,       \* that file in the remote store: [exists, content]
  storedToken,  \* localStorage github_token: "none", "good", "readonly", "bad"
  configToken,  \* config.token, captured by getGitHubConfig at construction
  useGitHub,    \* DataManager.useGitHub
  pc,           \* where each write cycle stands
  req,          \* its request
  source,       \* where its current table came from: "remote", "local"
  data,         \* currentData, the table it read
  readSha,      \* the sha of the file version that table was read from
  csv,          \* csvContent, the text it commits
  sha,          \* currentFile.sha, the sha its PUT carries
  err,          \* the last error thrown in the cycle
  trail,        \* the requests the cycle has sent, with their answers
  log,          \* the commits the remote store has accepted
  refs,         \* the reference kinds whose table loaded when the names of
                \* its table were resolved
  stage,        \* a table passed through the serializer and the parser: what
                \* is held now, "table" or "text" ("off" in a write cycle);
                \* after one reader or writer alone, which one has run
  docs,         \* the texts it has been, in order
  seen          \* the tables it has been, in order

vars ==
  <<entity, remote, storedToken, configToken, useGitHub, pc, req, source, data,
    readSha, csv, sha, err, trail, log, refs, stage, docs, seen>>

\* the variables of the passes through the serializer and the parser
csvVars == <<stage, docs, seen>>

Procs == {"A", "B"}

NoRequest == [type |-> "none", data |-> <<>>, id |-> Undef, rows |-> <<>>]

UpdateRequest(type, d, id) == [type |-> type, data |-> d, id |-> id, rows |-> <<>>]

BulkRequest(rows) == [type |-> "bulk", data |-> <<>>, id |-> Undef, rows |-> rows]

\* a call of get<Entity>s by a view, outside any write
ReadRequest == [type |-> "read", data |-> <<>>, id |-> Undef, rows |-> <<>>]

\* an entity kind none of the switches names
Unsupported == "widgets"

----------------------------------------------------------------------------
(* Inputs: files of the stores and requests of the callers *)

\* the last column of the entity, a free-text field
TextField(e) == getHeadersForEntity(e)[Len(getHeadersForEntity(e))]

\* one line of a remote file: the id, foreign keys and refid set, the last
\* column holding the given cell, the others empty
SeedLine(e, id, fk, cell) ==
  LET headers == getHeadersForEntity(e) IN
  Join([h \in 1..Len(headers) |->
          IF headers[h] = "id" THEN NatToText(id)
          ELSE IF headers[h] \in {"user_id", "organism_id", "vendor_id", "category_id"}
               THEN NatToText(fk)
          ELSE IF headers[h] = "refid" THEN <<"r", Digits[id + 1]>>
          ELSE IF h = Len(headers) THEN cell
          ELSE <<>>], COMMA)

HeaderLine(e) ==
  LET headers == getHeadersForEntity(e) IN
  Join([h \in 1..Len(headers) |-> <<headers[h]>>], COMMA)

\* a remote file with the ids 1, 3 and 7; the record 3 holds a quoted cell of
\* two lines, as a file edited outside this program may
SeedText(e) ==
  Join(<<HeaderLine(e),
         SeedLine(e, 1, 1, <<"x">>),
         SeedLine(e, 3, 2, <<QUOTE, "m", NL, "n", QUOTE>>),
         SeedLine(e, 7, 1, <<"z">>)>>, NL)

Missing == [exists |-> FALSE, content |-> <<>>]

File(content) == [exists |-> TRUE, content |-> content]

\* the remote file at the start: absent, holding the header only, or seeded
InitialFiles(e) ==
  IF e \in Entities THEN {Missing, File(HeaderLine(e)), File(SeedText(e))} ELSE {Missing}

\* the file of the local fallback source: the columns its mapper reads, one
\* record with the id 5
LocalText(e) ==
  LET fields == LocalFields(e) IN
  Join(<<Join([k \in 1..Len(fields) |-> <<fields[k][1]>>], COMMA),
         Join([k \in 1..Len(fields) |->
                 IF fields[k][1] = "id" THEN <<"5">>
                 ELSE IF fields[k][2] \in {"int", "rawint", "float", "rawfloat"} THEN <<"1">>
                 ELSE IF fields[k][1] \in NameFields THEN <<"localname">>
                 ELSE <<"local">>], COMMA)>>, NL)

\* request.data of the callers: a changed text field, alone or with an id
\* and a name field as the edit forms send them
Datas(e) ==
  { (TextField(e) :> Str(<<"w">>)),
    (TextField(e) :> Str(<<"a", COMMA, "b">>)) @@ ("id" :> Num(3)) @@ ("user_name" :> Str(<<"bob">>)) }

\* the rows of an import: the first shares the refid of the record 1 and
\* carries an id, the others carry a name field
ImportRow(e, k) ==
  IF k = 1
  THEN (TextField(e) :> Str(<<"i">>)) @@ ("refid" :> Str(<<"r", "1">>)) @@ ("id" :> Num(1))
  ELSE (TextField(e) :> Str(<<"j", Digits[k + 1]>>)) @@ ("vendor_name" :> Str(<<"bob">>))

MaxImport == 2

Imports(e) == {[k \in 1..n |-> ImportRow(e, k)] : n \in 1..MaxImport}

RequestIds == {Num(1), Num(3), Num(4)}

\* the writes a caller may issue for a kind no switch names
UnsupportedRequests ==
  { UpdateRequest("add", [name |-> Str(<<"w">>)], Undef),
    UpdateRequest("update", [name |-> Str(<<"w">>)], Num(1)),
    UpdateRequest("delete", <<>>, Num(1)),
    BulkRequest(<<[name |-> Str(<<"i">>)]>>) }

\* the requests a caller may issue for the entity
Requests(e) ==
  IF e \notin Entities THEN UnsupportedRequests ELSE
  {UpdateRequest("add", d, Undef) : d \in Datas(e)}
    \cup {UpdateRequest("update", d, id) : d \in Datas(e), id \in RequestIds}
    \cup {UpdateRequest("delete", <<>>, id) : id \in RequestIds}
    \cup (IF e \in RecordEntities THEN {BulkRequest(rows) : rows \in Imports(e)} ELSE {})

\* the requests of two callers racing on one file
RaceRequests(e) ==
  { UpdateRequest("add", (TextField(e) :> Str(<<"w">>)), Undef),
    UpdateRequest("update", (TextField(e) :> Str(<<"w">>)), Num(1)),
    UpdateRequest("delete", <<>>, Num(3)) }
    \cup (IF e \in RecordEntities THEN {BulkRequest(<<ImportRow(e, 1)>>)} ELSE {})

Tokens == {"none", "good", "readonly", "bad"}

\* the browser storage at construction: a token state, or "blocked" when the
\* access to localStorage throws
Storage == Tokens \cup {"blocked"}

----------------------------------------------------------------------------
(* Construction *)

\* a configuration check that asks for a token
getGitHubConfig_RequiresToken(stored) ==
  [throws |-> stored \in {"blocked", "none"}, token |-> stored]

\* getGitHubConfig: owner and repo default to 'rasilab' and
\* 'lab-database-data', so the configuration check does not throw; the read
\* of localStorage does when the storage is blocked; the token is the stored
\* one
getGitHubConfig(stored) == [throws |-> stored = "blocked", token |-> stored]

\* no call of the data manager is under way
Idle ==
  /\ pc = [p \in Procs |-> "idle"]
  /\ req = [p \in Procs |-> NoRequest]
  /\ source = [p \in Procs |-> "none"]
  /\ data = [p \in Procs |-> <<>>]
  /\ readSha = [p \in Procs |-> NoSha]
  /\ csv = [p \in Procs |-> <<>>]
  /\ sha = [p \in Procs |-> NoSha]
  /\ err = [p \in Procs |-> NoErr]
  /\ trail = [p \in Procs |-> <<>>]
  /\ log = <<>>
  /\ refs = [p \in Procs |-> {}]

InitWith(entities, tokens) ==
  /\ entity \in entities
  /\ remote \in InitialFiles(entity)
  /\ storedToken \in tokens
  /\ configToken = getGitHubConfig(storedToken).token
  /\ useGitHub = ~getGitHubConfig(storedToken).throws
  /\ stage = "off" /\ docs = <<>> /\ seen = <<>>
  /\ Idle

----------------------------------------------------------------------------
(* The write cycle: updateData / bulkImport, one action per await *)

\* a request is sent and answered; body and raw are what getCSVContent has
\* to read the content from
SentBody(p, op, withSha, status, body, raw) ==
  trail' = [trail EXCEPT ![p] =
              Append(@, [op |-> op, sha |-> withSha, status |-> status,
                         token |-> CurrentToken(storedToken, configToken),
                         presented |-> IF withSha THEN sha[p] ELSE NoSha,
                         body |-> body, raw |-> raw])]

Sent(p, op, withSha, status) == SentBody(p, op, withSha, status, NoFile, NoDownload)

\* the bodies explored for the GET of a read; inside a write cycle the
\* content comes inline in base64
Bodies(p) ==
  IF req[p].type = "read" THEN FileBodies(remote)
  ELSE {[content |-> Btoa(remote.content), encoding |-> "base64", download_url |-> TRUE]}

\* request() on a 401 answer removes the stored token
Clear401(status) ==
  storedToken' = IF status = 401 THEN "none" ELSE storedToken

\* a getter that tries the remote store whatever the configuration
ReadStart_AlwaysRemote(configured) == "read"

\* if (this.useGitHub) of get<Entity>s: the remote store first, or the local
\* source at once
ReadStart(configured) == IF configured THEN "read" ELSE "local"

\* a failed check that goes on to the fallback source
Fails_FallsBack(p, error) ==
  /\ pc' = [pc EXCEPT ![p] = "local"]
  /\ err' = [err EXCEPT ![p] = error]
  /\ UNCHANGED <<data, csv>>

\* a failed check that lets the call complete
Fails_Silently(p, error) ==
  /\ pc' = [pc EXCEPT ![p] = "resolved"]
  /\ UNCHANGED <<err, data, csv>>

\* the cycle settles at once with the error
Fails(p, error) ==
  /\ pc' = [pc EXCEPT ![p] = "rejected"]
  /\ err' = [err EXCEPT ![p] = error]
  /\ UNCHANGED <<data, csv>>

\* get<Entity>s, updateData or bulkImport is called: the configuration check
\* and the switch on the entity, then the read of the current table is started
Call(p, request) ==
  /\ pc[p] = "idle"
  /\ req' = [req EXCEPT ![p] = request]
  /\ IF request.type = "read"
     THEN /\ pc' = [pc EXCEPT ![p] = ReadStart(useGitHub)]
          /\ UNCHANGED <<err, data, csv>>
     ELSE IF ~useGitHub
     THEN Fails(p, Err("not_configured", 0))
     ELSE IF request.type # "bulk"
     THEN IF entity \in Entities
          THEN pc' = [pc EXCEPT ![p] = "read"] /\ UNCHANGED <<err, data, csv>>
          ELSE \* default case of the switch of updateData
               Fails(p, Err("unsupported_entity", 0))
     ELSE IF entity \in RecordEntities
     THEN pc' = [pc EXCEPT ![p] = "read"] /\ UNCHANGED <<err, data, csv>>
     ELSE IF entity \in Entities
     THEN \* no case of the switch of bulkImport: currentData stays []
          /\ pc' = [pc EXCEPT ![p] = "getFile"]
          /\ data' = [data EXCEPT ![p] = <<>>]
          /\ csv' = [csv EXCEPT ![p] =
                       dataToCSV(ApplyBulk(<<>>, request.rows), getHeadersForEntity(entity))]
          /\ err' = err
     ELSE \* no case of the switch, then getHeadersForEntity throws
          Fails(p, Err("unknown_entity", 0))
  /\ UNCHANGED <<entity, remote, storedToken, configToken, useGitHub, source,
                 readSha, sha, trail, log, refs>>
  /\ UNCHANGED csvVars

\* the table is loaded (get<Entity>s returns): relationships are resolved for
\* a record entity, `loaded` being the reference kinds whose getter answered,
\* then the mutation is applied and serialized and updateCSV is started
Loaded(p, from, records, loaded, version) ==
  LET currentData == IF entity \in RecordEntities
                     THEN Resolve(entity, records, loaded) ELSE records
  IN
  /\ source' = [source EXCEPT ![p] = from]
  /\ refs' = [refs EXCEPT ![p] = loaded]
  /\ data' = [data EXCEPT ![p] = currentData]
  /\ readSha' = [readSha EXCEPT ![p] = version]
  /\ IF req[p].type = "read"
     THEN /\ pc' = [pc EXCEPT ![p] = "resolved"]
          /\ err' = err
          /\ csv' = csv
     ELSE IF Throws(currentData, req[p])
     THEN /\ pc' = [pc EXCEPT ![p] = "rejected"]
          /\ err' = [err EXCEPT ![p] = Err("item_not_found", 0)]
          /\ csv' = csv
     ELSE /\ pc' = [pc EXCEPT ![p] = "getFile"]
          /\ err' = err
          /\ csv' = [csv EXCEPT ![p] =
                       dataToCSV(Mutate(currentData, req[p]), getHeadersForEntity(entity))]

\* the outcomes of the reference getters awaited by Promise.all: each
\* resolves or rejects (its remote read and its fallback read both failed);
\* inside a write cycle they are taken to answer or to reject together
Resolutions(p) ==
  IF entity \notin RecordEntities THEN {{}}
  ELSE IF req[p].type = "read" THEN SUBSET ResolvedKinds(entity)
  ELSE {{}, ResolvedKinds(entity)}

\* a getter that raises the missing token instead of falling back
AfterReadError_Raise(error) == IF error.kind = "auth_required" THEN "rejected" ELSE "local"

\* the catch of get<Entity>s: whatever the error, the local source is read
AfterReadError(error) == "local"

\* githubService.getCSVContent(<entity>.csv) answers, inside get<Entity>s
Read(p) ==
  /\ pc[p] = "read"
  /\ LET token == CurrentToken(storedToken, configToken) IN
     IF token = "none"
     THEN /\ pc' = [pc EXCEPT ![p] = AfterReadError(Err("auth_required", 0))]
          /\ err' = [err EXCEPT ![p] = Err("auth_required", 0)]
          /\ UNCHANGED <<storedToken, source, data, readSha, csv, trail, refs>>
     ELSE \E status \in Answers(GetStatus(token, remote)) :
            /\ Clear401(status)
            /\ IF Ok(status)
               THEN \E body \in Bodies(p), loaded \in Resolutions(p) :
                    \E raw \in Downloads(body, remote) :
                      LET got == getCSVContent(body, raw) IN
                      /\ SentBody(p, "GET", FALSE, status, body, raw)
                      /\ IF got.error = NoErr
                         THEN Loaded(p, "remote", ParseRemote(entity, got.text), loaded,
                                     ShaOf(remote.content))
                         ELSE /\ pc' = [pc EXCEPT ![p] = AfterReadError(got.error)]
                              /\ err' = [err EXCEPT ![p] = got.error]
                              /\ UNCHANGED <<source, data, readSha, csv, refs>>
               ELSE /\ Sent(p, "GET", FALSE, status)
                    /\ pc' = [pc EXCEPT ![p] = AfterReadError(ErrorOf(status))]
                    /\ err' = [err EXCEPT ![p] = ErrorOf(status)]
                    /\ UNCHANGED <<source, data, readSha, csv, refs>>
  /\ UNCHANGED <<entity, remote, configToken, useGitHub, req, sha, log>>
  /\ UNCHANGED csvVars

\* the catch branch of get<Entity>s: csvManager.get<Entity>s() answers; its
\* failure is not caught
Local(p) ==
  /\ pc[p] = "local"
  /\ \E fetched \in BOOLEAN, loaded \in Resolutions(p) :
       IF fetched
       THEN Loaded(p, "local", ParseLocal(entity, LocalText(entity)), loaded, NoSha)
       ELSE /\ pc' = [pc EXCEPT ![p] = "rejected"]
            /\ err' = [err EXCEPT ![p] = Err("local_fetch_failed", 0)]
            /\ UNCHANGED <<source, data, readSha, csv, refs>>
  /\ UNCHANGED <<entity, remote, storedToken, configToken, useGitHub, req, sha, trail, log>>
  /\ UNCHANGED csvVars

\* updateCSV: getFile(data/<entity>.csv) answers
GetFile(p) ==
  /\ pc[p] = "getFile"
  /\ LET token == CurrentToken(storedToken, configToken) IN
     IF token = "none"
     THEN /\ pc' = [pc EXCEPT ![p] = AfterError(Err("auth_required", 0))]
          /\ err' = [err EXCEPT ![p] = Err("auth_required", 0)]
          /\ UNCHANGED <<storedToken, sha, trail>>
     ELSE \E status \in Answers(GetStatus(token, remote)) :
            /\ Sent(p, "GET", FALSE, status)
            /\ Clear401(status)
            /\ IF Ok(status)
               THEN /\ pc' = [pc EXCEPT ![p] = "put"]
                    /\ sha' = [sha EXCEPT ![p] = ShaOf(remote.content)]
                    /\ err' = err
               ELSE /\ pc' = [pc EXCEPT ![p] = AfterError(ErrorOf(status))]
                    /\ err' = [err EXCEPT ![p] = ErrorOf(status)]
                    /\ sha' = sha
  /\ UNCHANGED <<entity, remote, configToken, useGitHub, req, source, data, readSha,
                 csv, log, refs>>
  /\ UNCHANGED csvVars

\* the store accepts a PUT of the cycle: the file is replaced
Commit(p) ==
  /\ remote' = File(EncodeContent(csv[p]))
  /\ log' = Append(log, [by |-> p, content |-> EncodeContent(csv[p]), replaced |-> remote,
                         read |-> readSha[p], from |-> source[p]])

\* an error thrown inside the catch block of updateCSV leaves updateCSV
AfterCreateError(error) == "rejected"

\* updateFile answers; after(error) is where the thrown error leads
PutAnswer(p, withSha) ==
  LET token == CurrentToken(storedToken, configToken)
      after(error) == IF withSha THEN AfterError(error) ELSE AfterCreateError(error)
  IN
  IF token = "none"
  THEN /\ pc' = [pc EXCEPT ![p] = after(Err("auth_required", 0))]
       /\ err' = [err EXCEPT ![p] = Err("auth_required", 0)]
       /\ UNCHANGED <<storedToken, trail, remote, log>>
  ELSE \E status \in Answers(PutStatus(token, remote, IF withSha THEN sha[p] ELSE NoSha)) :
         /\ Sent(p, "PUT", withSha, status)
         /\ Clear401(status)
         /\ IF Ok(status)
            THEN /\ Commit(p)
                 /\ pc' = [pc EXCEPT ![p] = "resolved"]
                 /\ err' = err
            ELSE /\ pc' = [pc EXCEPT ![p] = after(ErrorOf(status))]
                 /\ err' = [err EXCEPT ![p] = ErrorOf(status)]
                 /\ UNCHANGED <<remote, log>>

\* updateCSV: updateFile(path, csvContent, message, currentFile.sha) answers
Put(p) ==
  /\ pc[p] = "put"
  /\ PutAnswer(p, TRUE)
  /\ UNCHANGED <<entity, configToken, useGitHub, req, source, data, readSha, csv, sha, refs>>
  /\ UNCHANGED csvVars

\* updateCSV, catch branch: updateFile(path, csvContent, message) answers
Create(p) ==
  /\ pc[p] = "create"
  /\ PutAnswer(p, FALSE)
  /\ UNCHANGED <<entity, configToken, useGitHub, req, source, data, readSha, csv, sha, refs>>
  /\ UNCHANGED csvVars

----------------------------------------------------------------------------
(* Specifications *)

\* the steps of a cycle once it is called
Cycle(p) ==
  \/ Read(p)
  \/ Local(p)
  \/ GetFile(p)
  \/ Put(p)
  \/ Create(p)

\* two write cycles on the file of one entity, freely interleaved
RaceEntities == {"organisms", "celllines"}

Init == InitWith(RaceEntities, Tokens)

Next ==
  \E p \in Procs :
    \/ \E request \in RaceRequests(entity) : Call(p, request)
    \/ Cycle(p)

Spec == Init /\ [][Next]_vars

\* two write cycles one after the other: B is called once A has resolved
NextSeq ==
  \/ \E request \in RaceRequests(entity) : Call("A", request)
  \/ Cycle("A")
  \/ pc["A"] = "resolved" /\ \E request \in RaceRequests(entity) : Call("B", request)
  \/ Cycle("B")

SpecSeq == Init /\ [][NextSeq]_vars

\* one write cycle, for every entity kind, supported or not, every state of
\* the storage and every request
InitOne == InitWith(Entities \cup {Unsupported}, Storage)

NextOne ==
  \/ \E request \in Requests(entity) : Call("A", request)
  \/ Cycle("A")

SpecOne == InitOne /\ [][NextOne]_vars

\* one read of an entity by a view
InitRead == InitWith(Entities, Storage)

NextRead ==
  \/ Call("A", ReadRequest)
  \/ Read("A")
  \/ Local("A")

SpecRead == InitRead /\ [][NextRead]_vars

----------------------------------------------------------------------------
(* Observations used by the properties *)

Done(p) == pc[p] \in {"resolved", "rejected"}

\* the PUTs of the cycle the store accepted
AcceptedPuts(p) ==
  {k \in 1..Len(trail[p]) : trail[p][k].op = "PUT" /\ Ok(trail[p][k].status)}

\* the PUTs the cycle has sent
SentPuts(p) == {k \in 1..Len(trail[p]) : trail[p][k].op = "PUT"}

\* the cycle has computed the text it commits
Serialized(p) == csv[p] # <<>>

Headers == getHeadersForEntity(entity)

\* the k-th line of a text holding no line break inside a cell
Breaks(text) == {k \in 1..Len(text) : text[k] = NL}

LineCount(text) == Cardinality(Breaks(text)) + 1

Line(text, n) ==
  LET ends  == Breaks(text) \cup {0, Len(text) + 1}
      nth(k) == CHOOSE x \in ends : Cardinality({y \in ends : y < x}) = k
  IN  SubSeq(text, nth(n - 1) + 1, nth(n) - 1)

\* position k of the text lies inside a quoted cell
InQuotesAt(text, k) == Cardinality({j \in 1..(k - 1) : text[j] = QUOTE}) % 2 = 1

\* the ids of a table of records
IdSet(records) == {records[r].id.n : r \in 1..Len(records)}

MaxIn(S) == IF S = {} THEN 0 ELSE CHOOSE m \in S : \A x \in S : x <= m

\* the table a committed text is read back as
ReadBack(text) == ParseRemote(entity, text)

----------------------------------------------------------------------------
(* Properties of the write cycle *)

\* C1: every commit the store accepts from a cycle that read its table from
\* the remote file replaces the very file version the table was read from (a
\* cycle whose table is older than the file is rejected, no change of the
\* other cycle is discarded silently).
C1_StaleTableRejected ==
  \A k \in 1..Len(log) :
    log[k].from = "remote" =>
      /\ log[k].replaced.exists
      /\ log[k].read = ShaOf(log[k].replaced.content)

\* C2: a cycle whose table was served by the local fallback source has no
\* PUT accepted and does not resolve: fallback content is never committed.
C2_NoFallbackCommit ==
  \A p \in Procs :
    source[p] = "local" => AcceptedPuts(p) = {} /\ pc[p] # "resolved"

\* C3: a call that resolves had exactly one PUT accepted, and a finished call
\* with no accepted PUT has rejected.
C3_SuccessIsOneCommit ==
  \A p \in Procs :
    /\ pc[p] = "resolved" =>
         /\ Cardinality(AcceptedPuts(p)) = 1
         /\ Cardinality({k \in 1..Len(log) : log[k].by = p}) = 1
    /\ Done(p) /\ AcceptedPuts(p) = {} => pc[p] = "rejected" /\ err[p] # NoErr

C3_Witness ==
  /\ pc["A"] = "resolved" /\ Cardinality(AcceptedPuts("A")) = 1
  /\ pc["B"] = "rejected" /\ AcceptedPuts("B") = {} /\ SentPuts("B") # {}

\* the PUTs of the cycle that carried a sha and were answered 409
Conflicts(p) ==
  {k \in 1..Len(trail[p]) :
     trail[p][k].op = "PUT" /\ trail[p][k].sha /\ trail[p][k].status = 409}

\* C4: a PUT rejected for its stale sha is the last request of its cycle, the
\* cycle rejects with that error, and the file holds what the other writer
\* committed.
C4_ConflictIsFinal ==
  \A p \in Procs :
    \A k \in Conflicts(p) :
      /\ k = Len(trail[p])
      /\ pc[p] = "rejected"
      /\ err[p] = Err("api", 409)
      /\ log # <<>>
      /\ log[Len(log)].by # p
      /\ remote = File(log[Len(log)].content)

C4_Witness ==
  \E p \in Procs : Conflicts(p) # {} /\ Len(log) = 1

\* C5: of two calls made one after the other, the first an add, the second
\* commits the table the first committed with its own mutation applied (both
\* changes present), or is rejected.
C5_SecondKeepsFirst ==
  Len(log) = 2 /\ req[log[1].by].type = "add" =>
    log[2].content =
      EncodeContent(dataToCSV(Mutate(ReadBack(log[1].content), req[log[2].by]), Headers))

----------------------------------------------------------------------------
(* Properties of the mutations and of the committed text *)

\* C6: every record id of a committed table is a positive integer and no two
\* records of the table share an id.
C6_IdsUniquePositive ==
  \A k \in 1..Len(log) :
    LET tbl == ReadBack(log[k].content) IN
    /\ \A r \in 1..Len(tbl) : tbl[r].id.t = "num" /\ tbl[r].id.n > 0
    /\ \A r1, r2 \in 1..Len(tbl) : r1 # r2 => tbl[r1].id # tbl[r2].id

\* the cycle is an add whose text is serialized
Adding(p) == req[p].type = "add" /\ Serialized(p)

\* C7: an add appends one record whose id is the maximum id of the table read
\* (0 for an empty table) plus 1, whatever id request.data holds: 8 for the
\* ids 1, 3, 7, 1 for an empty table, never an id of the table read.
C7_AddAllocatesMaxPlusOne ==
  \A p \in Procs :
    Adding(p) =>
      LET tbl == ReadBack(csv[p])
          old == IdSet(data[p])
      IN  /\ Len(tbl) = Len(data[p]) + 1
          /\ tbl[Len(tbl)].id = Num(MaxIn(old \cup {0}) + 1)
          /\ tbl[Len(tbl)].id.n \notin old
          /\ old = {1, 3, 7} => tbl[Len(tbl)].id.n = 8
          /\ old = {} => tbl[Len(tbl)].id.n = 1

C7_Witness ==
  /\ Adding("A")
  /\ IdSet(data["A"]) = {1, 3, 7}
  /\ "id" \in DOMAIN req["A"].data
  /\ ReadBack(csv["A"])[4].id = Num(8)
  /\ pc["A"] = "resolved"

\* the cycle is a bulk import whose text is serialized
Importing(p) == req[p].type = "bulk" /\ Serialized(p)

\* the imported row k as it is to be committed: the row with the id m + k
Imported(row, m, k) ==
  [f \in (DOMAIN row) \cup {"id"} |-> IF f = "id" THEN Num(m + k) ELSE row[f]]

\* C8: a bulk import of N rows onto a table of maximum id M commits, in one
\* accepted PUT at most, the records read, in their order, followed by the N
\* rows in input order with the ids M+1..M+N; none is dropped or merged.
C8_ImportAppendsBlock ==
  \A p \in Procs :
    Importing(p) =>
      LET rows == req[p].rows
          m    == MaxIn(IdSet(data[p]) \cup {0})
          want == data[p] \o [k \in 1..Len(rows) |-> Imported(rows[k], m, k)]
          tbl  == ReadBack(csv[p])
      IN  /\ csv[p] = dataToCSV(want, Headers)
          /\ Len(tbl) = Len(data[p]) + Len(rows)
          /\ \A r \in 1..Len(data[p]) : tbl[r].id = data[p][r].id
          /\ \A k \in 1..Len(rows) : tbl[Len(data[p]) + k].id = Num(m + k)
          /\ Cardinality(AcceptedPuts(p)) <= 1

C8_Witness ==
  /\ Importing("A")
  /\ Len(req["A"].rows) = 2
  /\ IdSet(data["A"]) = {1, 3, 7}
  /\ "id" \in DOMAIN req["A"].rows[1]
  /\ \E r \in 1..Len(data["A"]) :
       Prop(data["A"][r], "refid") = Prop(req["A"].rows[1], "refid")
  /\ pc["A"] = "resolved"

\* the cycle is an update or a delete whose text is serialized
Editing(p) == req[p].type \in {"update", "delete"} /\ Serialized(p)

\* the position in the table read of the record an update changes
UpdateRow(p) == FindIndex(data[p], req[p].id)

\* the positions, in the table read, of the records the request does not name
OtherRows(p) ==
  {r \in 1..Len(data[p]) :
     IF req[p].type = "update" THEN r # UpdateRow(p) ELSE data[p][r].id # req[p].id}

\* the position in the committed table of the record read at position r
After(p, r) ==
  IF req[p].type = "update" THEN r
  ELSE Cardinality({q \in OtherRows(p) : q <= r})

\* a value with the line breaks inside it flattened as the serializer does
Flat(v) == IF v.t = "str" THEN Str(FlattenNewlines(v.s)) ELSE v

\* the persisted fields of a record, line breaks flattened
PersistedFlat(item) == [h \in {Headers[k] : k \in 1..Len(Headers)} |-> Flat(Prop(item, h))]

\* the persisted fields of a record
Persisted(item) == [h \in {Headers[k] : k \in 1..Len(Headers)} |-> Prop(item, h)]

\* the number of records the committed table is to hold
CountAfter(p) ==
  IF req[p].type = "update" THEN Len(data[p]) ELSE Cardinality(OtherRows(p))

\* C9 as stated: every record the request does not name is read back from the
\* committed text, at its place, with the field values it was read with.
C9_OthersKeepValues ==
  \A p \in Procs :
    Editing(p) =>
      /\ Len(ReadBack(csv[p])) = CountAfter(p)
      /\ \A r \in OtherRows(p) :
           Persisted(ReadBack(csv[p])[After(p, r)]) = Persisted(data[p][r])

\* the lines of the committed text after the header
DataLines(p) == [n \in 1..(LineCount(csv[p]) - 1) |-> Line(csv[p], n + 1)]

\* C9 amended: every record the request does not name is committed, at its
\* place, as the line the serializer renders from the values read, and is read
\* back with those values, each run of line breaks inside a value replaced by
\* one space; an update keeps the record count and the fields of its record
\* that request.data does not name; a delete drops exactly the records with
\* the id.
C9_OthersKeepRendering ==
  \A p \in Procs :
    Editing(p) =>
      /\ Len(DataLines(p)) = CountAfter(p)
      /\ Len(ReadBack(csv[p])) = CountAfter(p)
      /\ \A r \in OtherRows(p) :
           /\ DataLines(p)[After(p, r)] = RowToCSV(data[p][r], Headers)
           /\ Persisted(ReadBack(csv[p])[After(p, r)]) = PersistedFlat(data[p][r])
      /\ req[p].type = "update" =>
           \A h \in 1..Len(Headers) :
             Headers[h] \notin DOMAIN req[p].data =>
               ReadBack(csv[p])[UpdateRow(p)][Headers[h]]
                 = Flat(data[p][UpdateRow(p)][Headers[h]])
      /\ req[p].type = "delete" =>
           \A r \in 1..Len(ReadBack(csv[p])) : ReadBack(csv[p])[r].id # req[p].id

C9_Witness ==
  /\ Editing("A")
  /\ req["A"].type = "update"
  /\ req["A"].id = Num(1)
  /\ IdSet(data["A"]) = {1, 3, 7}
  /\ \E r \in OtherRows("A"), h \in 1..Len(Headers) :
       Includes(Prop(data["A"][r], Headers[h]).s, NL)
  /\ pc["A"] = "resolved"

\* the symbols that are names: of the reference tables, of the requests and
\* of the name columns of the local fallback file
NameSymbols == {"alice", "yeast", "acme", "reagent", "bob", "localname"}

\* C10: the committed text has exactly the header columns of the entity, one
\* cell per column in every line, no name column and no name value.
C10_NoNamesCommitted ==
  \A p \in Procs :
    Serialized(p) =>
      LET rows == parseCSVRows(csv[p]) IN
      /\ rows[1] = [h \in 1..Len(Headers) |-> <<Headers[h]>>]
      /\ \A h \in 1..Len(Headers) : Headers[h] \notin NameFields
      /\ \A n \in 1..LineCount(csv[p]) :
           Cardinality({k \in 1..Len(Line(csv[p], n)) : Line(csv[p], n)[k] = COMMA /\ ~InQuotesAt(Line(csv[p], n), k)})
             = Len(Headers) - 1
      /\ \A k \in 1..Len(csv[p]) : csv[p][k] \notin NameSymbols

C10_Witness ==
  /\ entity = "orders"
  /\ req["A"].type = "bulk" /\ Len(req["A"].rows) = 2
  /\ \E r \in 1..Len(data["A"]) : data["A"][r].user_name = Str(<<"alice">>)
  /\ pc["A"] = "resolved"

----------------------------------------------------------------------------
(* Properties of the reads and of the checks before a write *)

\* the read of the cycle is past its remote attempt, which failed
RemoteReadFailed(p) ==
  /\ pc[p] \in {"local", "resolved", "rejected"}
  /\ \/ trail[p] = <<>>
     \/ ~Ok(trail[p][1].status)
     \/ getCSVContent(trail[p][1].body, trail[p][1].raw).error # NoErr

\* the tables get<Entity>s returns from the fallback source: the local
\* records, with the names resolved or as they are
FallbackTables ==
  {ParseLocal(entity, LocalText(entity)),
   ResolveNames(entity, ParseLocal(entity, LocalText(entity)))}

\* the read returned the fallback data
ReturnedFallback(p) ==
  pc[p] = "resolved" /\ source[p] = "local" /\ data[p] \in FallbackTables

\* C11: a read of a configured data manager whose remote attempt failed
\* (no token, 401, 404, another status, no answer) reads the fallback source,
\* and returns its data without raising unless the fallback read itself fails.
C11_ReadFallsBack ==
  \A p \in Procs :
    req[p].type = "read" /\ useGitHub =>
      /\ RemoteReadFailed(p) =>
           \/ pc[p] = "local"
           \/ ReturnedFallback(p)
           \/ pc[p] = "rejected" /\ err[p] = Err("local_fetch_failed", 0)
      /\ pc[p] = "rejected" => err[p] = Err("local_fetch_failed", 0)

C11_Witness ==
  /\ req["A"].type = "read" /\ useGitHub
  /\ trail["A"] # <<>> /\ trail["A"][1].status = 401
  /\ ReturnedFallback("A")
  /\ data["A"] # <<>>

\* a write was called
Writing(p) == req[p].type \in {"add", "update", "delete", "bulk"}

\* C12: a write on a data manager that is not configured is rejected with the
\* configuration error, having sent no request and read no table, remote or
\* fallback.
C12_UnconfiguredWriteFails ==
  \A p \in Procs :
    Writing(p) /\ ~useGitHub =>
      /\ pc[p] = "rejected"
      /\ err[p] = Err("not_configured", 0)
      /\ trail[p] = <<>>
      /\ source[p] = "none" /\ data[p] = <<>> /\ csv[p] = <<>>
      /\ log = <<>>

C12_Witness ==
  /\ ~useGitHub
  /\ entity = "celllines" /\ remote.exists
  /\ req["A"].type = "bulk"
  /\ pc["A"] = "rejected"

\* C13: a write naming a kind outside the eight is rejected with an explicit
\* error (the unsupported entity, or the configuration when that check fails
\* first), sends no PUT and commits nothing.
C13_UnsupportedEntityFails ==
  \A p \in Procs :
    Writing(p) /\ entity \notin Entities =>
      /\ pc[p] = "rejected"
      /\ err[p] = IF ~useGitHub THEN Err("not_configured", 0)
                  ELSE IF req[p].type = "bulk" THEN Err("unknown_entity", 0)
                  ELSE Err("unsupported_entity", 0)
      /\ trail[p] = <<>>
      /\ log = <<>> /\ remote = Missing

C13_Witness ==
  /\ entity = Unsupported /\ useGitHub
  /\ req["A"].type = "bulk"
  /\ pc["A"] = "rejected" /\ err["A"] = Err("unknown_entity", 0)

\* C14 as stated: a read on a data manager that is not configured sends no
\* request and, once settled, has returned the fallback data.
C14_UnconfiguredReadReturns ==
  \A p \in Procs :
    req[p].type = "read" /\ ~useGitHub =>
      /\ trail[p] = <<>>
      /\ Done(p) => ReturnedFallback(p)

\* C14 amended: a read on a data manager that is not configured goes straight
\* to the fallback source, sends no request, and returns the fallback data
\* unless the fallback read itself fails, the only error it raises.
C14_UnconfiguredReadIsLocal ==
  \A p \in Procs :
    req[p].type = "read" /\ ~useGitHub =>
      /\ trail[p] = <<>>
      /\ pc[p] \in {"local", "resolved", "rejected"}
      /\ pc[p] = "resolved" => ReturnedFallback(p)
      /\ pc[p] = "rejected" => err[p] = Err("local_fetch_failed", 0)
      /\ pc[p] # "rejected" => err[p] = NoErr

C14_Witness ==
  /\ req["A"].type = "read" /\ ~useGitHub
  /\ entity = "celllines" /\ remote.exists
  /\ ReturnedFallback("A") /\ data["A"] # <<>>

----------------------------------------------------------------------------
(* Properties of the remote store client *)

\* C15: once a request was answered 401, the token it carried is held neither
\* in the storage nor in the client's configuration, and no later request of
\* the cycle carries it.
C15_RejectedTokenForgotten ==
  \A p \in Procs :
    \A k \in 1..Len(trail[p]) :
      trail[p][k].status = 401 =>
        /\ storedToken # trail[p][k].token
        /\ configToken # trail[p][k].token
        /\ \A j \in (k + 1)..Len(trail[p]) : trail[p][j].token # trail[p][k].token

\* C16: every request sent carries a bearer token; while none is available
\* no request is sent, the read inside a getter and the getFile of updateCSV
\* fail with the authentication-required error, and nothing is committed.
C16_NoAnonymousRequest ==
  /\ \A p \in Procs :
       \A k \in 1..Len(trail[p]) : trail[p][k].token \in Tokens \ {"none"}
  /\ useGitHub /\ CurrentToken(storedToken, configToken) = "none" =>
       /\ log = <<>>
       /\ \A p \in Procs :
            /\ trail[p] = <<>>
            /\ pc[p] \notin {"put", "create", "resolved"}
            /\ pc[p] = "local" => err[p] = Err("auth_required", 0)
            /\ pc[p] = "rejected" /\ Serialized(p) => err[p] = Err("auth_required", 0)

C16_Witness ==
  /\ useGitHub /\ CurrentToken(storedToken, configToken) = "none"
  /\ remote.exists
  /\ pc["A"] = "rejected" /\ Serialized("A")
  /\ err["A"] = Err("auth_required", 0)

\* the request the step of the cycle has sent, if it has sent one
SentNow(p) == Len(trail'[p]) = Len(trail[p]) + 1

LastSent(p) == trail'[p][Len(trail'[p])]

\* C17: in updateCSV, a getFile answered 200 is followed by the PUT carrying
\* the sha of the file it read; a getFile answered 404 is followed by a PUT
\* without sha, whose outcome is the outcome of updateCSV; any other failure of
\* the getFile rejects with its error, and no PUT follows.
C17_UpdateCSVBranches ==
  [][\A p \in Procs :
       /\ pc[p] = "getFile" /\ pc'[p] # "getFile" =>
            IF SentNow(p) /\ LastSent(p).status = 200
            THEN /\ LastSent(p).op = "GET"
                 /\ pc'[p] = "put"
                 /\ sha'[p] = ShaOf(remote.content)
            ELSE IF SentNow(p) /\ LastSent(p).status = 404
            THEN pc'[p] = "create"
            ELSE /\ pc'[p] = "rejected"
                 /\ err'[p] = IF SentNow(p) THEN ErrorOf(LastSent(p).status)
                              ELSE Err("auth_required", 0)
       /\ pc[p] = "put" /\ pc'[p] # "put" /\ SentNow(p) =>
            /\ LastSent(p).op = "PUT"
            /\ LastSent(p).presented = sha[p] /\ sha[p] # NoSha
       /\ pc[p] = "create" /\ pc'[p] # "create" =>
            /\ SentNow(p) => LastSent(p).op = "PUT" /\ LastSent(p).presented = NoSha
            /\ pc'[p] = IF SentNow(p) /\ Ok(LastSent(p).status) THEN "resolved" ELSE "rejected"
       /\ (SentNow(p) /\ LastSent(p).op = "PUT") => pc[p] \in {"put", "create"}
    ]_vars

C17_Witness ==
  /\ pc["A"] = "resolved"
  /\ \E k \in 1..(Len(trail["A"]) - 1) :
       /\ trail["A"][k].op = "GET" /\ trail["A"][k].status = 404
       /\ trail["A"][k + 1].op = "PUT" /\ trail["A"][k + 1].presented = NoSha
       /\ trail["A"][k + 1].status = 201
       /\ k + 1 = Len(trail["A"])

----------------------------------------------------------------------------
(* The serializer and the parser applied in turn to a table or a text *)

\* the conversion the mapper of the entity applies to the column of a header
KindOf(e, header) ==
  LET fields == MapperFields(e) IN
  fields[CHOOSE k \in 1..Len(fields) : fields[k][1] = header][2]

\* the positions of the headers whose column the mapper reads as a string
StrColumns(e) ==
  {h \in 2..Len(getHeadersForEntity(e)) : KindOf(e, getHeadersForEntity(e)[h]) = "str"}

\* a line with every cell filled: the id, a number in each numeric column, a
\* word in each string column, and the given cell in column c
FullLine(e, id, c, cell) ==
  LET headers == getHeadersForEntity(e) IN
  Join([h \in 1..Len(headers) |->
          IF h = 1 THEN NatToText(id)
          ELSE IF h = c THEN cell
          ELSE IF KindOf(e, headers[h]) = "str" THEN <<"c">> \o NatToText(h)
          ELSE NatToText(h)], COMMA)

\* the record the mapper reads from a full line
FullRecord(e, id) == MapRow(MapperFields(e), parseCSVRows(FullLine(e, id, 0, <<>>))[1])

\* values of a string field: with a comma, with a quote inside, wrapped in
\* quotes, with white space in front or behind, empty, plain
FieldTexts ==
  { <<"a", COMMA, "b">>, <<"a", QUOTE, "b">>, <<QUOTE, "q", QUOTE>>,
    <<SP, "a">>, <<"a", SP>>, <<>>, <<"x">> }

\* tables of two records, the first holding one of the values in one of its
\* string fields
InputTables(e) ==
  { << [FullRecord(e, 1) EXCEPT ![getHeadersForEntity(e)[c]] = Str(v)], FullRecord(e, 3) >> :
      c \in StrColumns(e), v \in FieldTexts }

\* cells as a file holds them: a quoted comma, quoted text with doubled
\* quotes, a quoted line break
FieldCells ==
  { <<QUOTE, "a", COMMA, "b", QUOTE>>,
    <<QUOTE, "He", SP, "said", SP, QUOTE, QUOTE, "hi", QUOTE, QUOTE, QUOTE>>,
    <<QUOTE, "m", NL, "n", QUOTE>> }

\* the value the parser is to read from such a cell
CellValue(cell) ==
  CASE cell = <<QUOTE, "a", COMMA, "b", QUOTE>> -> <<"a", COMMA, "b">>
    [] cell = <<QUOTE, "m", NL, "n", QUOTE>> -> <<"m", NL, "n">>
    [] OTHER -> <<"He", SP, "said", SP, QUOTE, "hi", QUOTE>>

\* a file of two full rows, the first holding the cell in column c
QuotedText(e, c, cell) ==
  Join(<<HeaderLine(e), FullLine(e, 1, c, cell), FullLine(e, 3, 0, <<>>)>>, NL)

\* the file `id,note\n1,"a,b"`
NoteText == <<"id", COMMA, "note", NL, "1", COMMA, QUOTE, "a", COMMA, "b", QUOTE>>

\* the first n cells of a line of plain cells
FirstCells(line, n) ==
  LET commas == {k \in 1..Len(line) : line[k] = COMMA}
      cut    == CHOOSE k \in commas : Cardinality({j \in commas : j <= k}) = n
  IN  SubSeq(line, 1, cut - 1)

\* a file of three rows whose second row has n cells only
ShortText(e, n) ==
  Join(<<HeaderLine(e), FullLine(e, 1, 0, <<>>),
         FirstCells(FullLine(e, 3, 0, <<>>), n),
         FullLine(e, 7, 0, <<>>)>>, NL)

\* the files given to the parser
InputTexts(e) ==
  {QuotedText(e, c, cell) : c \in StrColumns(e), cell \in FieldCells}
    \cup {ShortText(e, n) : n \in 1..(Len(getHeadersForEntity(e)) - 1)}
    \cup {NoteText}

\* the number of tables a pass sequence goes through
MaxTables == 2

InitCSV ==
  /\ entity \in Entities
  /\ remote = Missing
  /\ storedToken = "none" /\ configToken = "none" /\ useGitHub = TRUE
  /\ Idle
  /\ \/ \E table \in InputTables(entity) :
          stage = "table" /\ seen = <<table>> /\ docs = <<>>
     \/ \E text \in InputTexts(entity) :
          stage = "text" /\ docs = <<text>> /\ seen = <<>>

\* dataToCSV(data, getHeadersForEntity(entity))
Serialize ==
  /\ stage = "table" /\ Len(seen) < MaxTables
  /\ docs' = Append(docs, dataToCSV(seen[Len(seen)], getHeadersForEntity(entity)))
  /\ stage' = "text"
  /\ UNCHANGED <<entity, remote, storedToken, configToken, useGitHub, pc, req, source,
                 data, readSha, csv, sha, err, trail, log, refs, seen>>

\* csvManager.parseCSV(csvContent, this.<entity>Mapper)
Parse ==
  /\ stage = "text"
  /\ seen' = Append(seen, ParseRemote(entity, docs[Len(docs)]))
  /\ stage' = "table"
  /\ UNCHANGED <<entity, remote, storedToken, configToken, useGitHub, pc, req, source,
                 data, readSha, csv, sha, err, trail, log, refs, docs>>

NextCSV == Serialize \/ Parse

SpecCSV == InitCSV /\ [][NextCSV]_vars

----------------------------------------------------------------------------
(* Properties of the serializer and the parser *)

\* the passes started from a table
FromTable == Len(docs) + (IF stage = "table" THEN 1 ELSE 0) = Len(seen)

\* the persisted fields of two records are the same
SameFields(a, b) == \A h \in 1..Len(Headers) : Prop(a, Headers[h]) = Prop(b, Headers[h])

\* C18: a table serialized and parsed comes back with as many records, every
\* persisted field of every record holding the value it held.
C18_RoundTrip ==
  FromTable /\ Len(seen) = 2 =>
    /\ Len(seen[2]) = Len(seen[1])
    /\ \A r \in 1..Len(seen[1]) : SameFields(seen[2][r], seen[1][r])

\* C19: from a file of two rows whose first row holds, in a string column, a
\* cell with a quoted comma, doubled quotes or a quoted line break, the parser
\* reads two records, the cell as one value and every other field as written;
\* serialized, every row has one cell per header; parsed again, every other
\* field of the row and the other row hold the same values, and the field
\* itself holds its value with the line break flattened; the file
\* `id,note\n1,"a,b"` is read as the header and the row ["1", "a,b"].
C19_QuotedFieldsKeepNeighbours ==
  /\ ~FromTable /\ Len(seen) >= 1 =>
       \A c \in StrColumns(entity), cell \in FieldCells :
         docs[1] = QuotedText(entity, c, cell) =>
           LET first == seen[1]
               field == Headers[c]
           IN  /\ Len(first) = 2
               /\ first[1] = [FullRecord(entity, 1) EXCEPT ![field] = Str(CellValue(cell))]
               /\ first[2] = FullRecord(entity, 3)
               /\ Len(docs) = 2 =>
                    LET rows == parseCSVRows(docs[2]) IN
                    /\ Len(rows) = 3
                    /\ \A r \in 1..3 : Len(rows[r]) = Len(Headers)
               /\ Len(seen) = 2 =>
                    /\ Len(seen[2]) = 2
                    /\ seen[2][1] = [first[1] EXCEPT ![field] = Flat(first[1][field])]
                    /\ seen[2][2] = first[2]
  /\ ~FromTable /\ docs[1] = NoteText =>
       parseCSVRows(docs[1]) = << << <<"id">>, <<"note">> >>, << <<"1">>, <<"a", COMMA, "b">> >> >>

C19_Witness ==
  /\ entity = "celllines"
  /\ stage = "table" /\ Len(seen) = 2
  /\ \E c \in StrColumns(entity) :
       /\ c < Len(Headers)
       /\ docs[1] = QuotedText(entity, c, <<QUOTE, "m", NL, "n", QUOTE>>)

\* C20: from a file of three rows whose second row has fewer cells than the
\* entity has columns, the load yields the two records of the full rows.
C20_ShortRowDropped ==
  ~FromTable /\ Len(seen) >= 1 =>
    \A n \in 1..(Len(Headers) - 1) :
      docs[1] = ShortText(entity, n) =>
        seen[1] = <<FullRecord(entity, 1), FullRecord(entity, 7)>>

----------------------------------------------------------------------------
(* One reader or one writer applied to a file or a table *)

\* the variables of the calls of the data manager
cycleVars ==
  <<entity, remote, storedToken, configToken, useGitHub, pc, req, source, data,
    readSha, csv, sha, err, trail, log, refs>>

\* the ids of the three data rows of a file
RowIds == <<1, 3, 7>>

\* the numbers of cells a row is cut to: the first cell only, or the cells
\* before the last string column
Cuts(e) == {1, MaxIn(StrColumns(e)) - 1}

\* a file of three data rows, those of `shorts` cut to their first n cells
CutText(e, shorts, n) ==
  Join(<<HeaderLine(e)>> \o
       [k \in 1..3 |-> IF k \in shorts
                       THEN FirstCells(FullLine(e, RowIds[k], 0, <<>>), n)
                       ELSE FullLine(e, RowIds[k], 0, <<>>)], NL)

\* texts without a data row: empty, white space only, the header only
NoRowTexts(e) == {<<>>, <<SP, NL, SP>>, HeaderLine(e)}

\* a table of two full records and the file the write path makes of it
WrittenTable(e) == <<FullRecord(e, 1), FullRecord(e, 3)>>

WrittenText(e) == dataToCSV(WrittenTable(e), getHeadersForEntity(e))

\* the files given to a reader
ReaderTexts(e) ==
  {CutText(e, shorts, n) : shorts \in SUBSET (1..3), n \in Cuts(e)}
    \cup NoRowTexts(e) \cup {WrittenText(e)}

\* the readers of a file: the mapper of the data manager, the mapper of the
\* fallback source, a mapper of another caller
Readers == {"remote", "local", "caller"}

ReaderFields(reader, e) ==
  CASE reader = "remote" -> MapperFields(e)
    [] reader = "local"  -> LocalFields(e)
    [] reader = "caller" -> CallerFields(e)

\* in-memory values of a name field
NameValues == {<<"bob">>, <<"a", COMMA, "b">>}

\* a table of one record whose four name fields hold the value
NamedTables(e) ==
  { << Spread(FullRecord(e, 1), [f \in NameFields |-> Str(v)]) >> : v \in NameValues }

\* header lists passed to the serializer: the list of the entity, alone or
\* with one name field after the id or at the end
HeaderLists(e) ==
  {getHeadersForEntity(e)}
    \cup {Append(getHeadersForEntity(e), f) : f \in NameFields}
    \cup {<<"id", f>> \o Tail(getHeadersForEntity(e)) : f \in NameFields}

InitCodec ==
  /\ entity \in Entities
  /\ remote = Missing
  /\ storedToken = "none" /\ configToken = "none" /\ useGitHub = TRUE
  /\ Idle
  /\ \/ \E table \in NamedTables(entity) :
          stage = "table" /\ seen = <<table>> /\ docs = <<>>
     \/ \E text \in ReaderTexts(entity) :
          stage = "text" /\ docs = <<text>> /\ seen = <<>>

\* csvManager.parseCSV(csvText, mapper) with the mapper of the reader
ReadWith(reader) ==
  /\ stage = "text"
  /\ seen' = <<parseCSV(docs[1], ReaderFields(reader, entity))>>
  /\ stage' = reader
  /\ UNCHANGED docs
  /\ UNCHANGED cycleVars

\* dataToCSV(data, headers)
WriteWith(headers) ==
  /\ stage = "table"
  /\ docs' = <<dataToCSV(seen[1], headers)>>
  /\ stage' = "written"
  /\ UNCHANGED seen
  /\ UNCHANGED cycleVars

NextCodec ==
  \/ ReadWith("remote")
  \/ ReadWith("local")
  \/ ReadWith("caller")
  \/ \E headers \in HeaderLists(entity) : WriteWith(headers)

SpecCodec == InitCodec /\ [][NextCodec]_vars

----------------------------------------------------------------------------
(* Properties of one reader or one writer *)

\* the records of the rows of a cut file that were left whole, in order
WholeRecords(e, shorts) ==
  LET whole(k) == k \notin shorts IN
  [j \in 1..Len(SelectSeq(<<1, 2, 3>>, whole)) |->
     FullRecord(e, RowIds[SelectSeq(<<1, 2, 3>>, whole)[j]])]

\* C21: parseCSV with a mapper that throws on the rows cut short returns the
\* records of the other rows in their order, neither a record of the header
\* nor a null; whatever the mapper, an empty text, a text of white space and
\* a text holding only the header give no record.
C21_ThrowingRowsDiscarded ==
  /\ stage = "caller" =>
       \A shorts \in SUBSET (1..3), n \in Cuts(entity) :
         docs[1] = CutText(entity, shorts, n) =>
           seen[1] = WholeRecords(entity, shorts)
  /\ stage \in Readers /\ docs[1] \in NoRowTexts(entity) => seen[1] = <<>>

C21_Witness ==
  /\ stage = "caller" /\ entity = "celllines"
  /\ docs[1] = CutText(entity, {2}, 14)
  /\ Len(seen[1]) = 2
  /\ seen[1][2].id = Num(7)

\* C24: the file the write path makes of a table of two full records is read
\* back, by the mapper of the data manager and by the mapper of the fallback
\* source alike, as two records whose persisted fields each hold the value the
\* writer put in the column of that field.
C24_ReadersFollowHeaders ==
  stage \in {"remote", "local"} /\ docs[1] = WrittenText(entity) =>
    /\ Len(seen[1]) = 2
    /\ \A r \in 1..2 : SameFields(seen[1][r], WrittenTable(entity)[r])

\* the header row and the data rows of the text a writer made
WrittenRows == parseCSVRows(docs[1])

----------------------------------------------------------------------------
(* Properties of the relationship resolution *)

\* a read of a record entity has returned its table
ReadReturned(p) ==
  req[p].type = "read" /\ pc[p] = "resolved" /\ entity \in RecordEntities

\* the records the getter parsed, before the resolution step
Parsed(p) ==
  IF source[p] = "remote" THEN ParseRemote(entity, remote.content)
  ELSE ParseLocal(entity, LocalText(entity))

\* every reference getter of the resolution step answered
AllLoaded(p) == refs[p] = ResolvedKinds(entity)

\* the name the reference table of the kind gives the id: that of the row
\* with the id, the empty string when there is none
NameOf(kind, id) ==
  IF \E i \in DOMAIN ReferenceNames(kind) : id = Num(i)
  THEN Str(ReferenceNames(kind)[id.n])
  ELSE Str(<<>>)

\* every record parsed is returned, each name field holding the name of its id
NamesFollowIds(p) ==
  /\ Len(data[p]) = Len(Parsed(p))
  /\ \A r \in 1..Len(data[p]) :
       /\ data[p][r].id = Parsed(p)[r].id
       /\ \A k \in ResolvedKinds(entity) :
            data[p][r][NameField(k)] = NameOf(k, data[p][r][IdField(k)])

\* C22 as stated: in every table a read of a record entity returns, each
\* name field holds the name of the reference row with the id of the record's
\* foreign key, the empty string when there is none, and no record is missing.
C22_NamesFollowReferences ==
  \A p \in Procs : ReadReturned(p) => NamesFollowIds(p)

\* C22 amended: the same, for the reads whose resolution step loaded every
\* reference table it needs.
C22_NamesFollowLoadedReferences ==
  \A p \in Procs : ReadReturned(p) /\ AllLoaded(p) => NamesFollowIds(p)

C22_Witness ==
  /\ ReadReturned("A") /\ AllLoaded("A")
  /\ entity = "orders" /\ source["A"] = "remote"
  /\ Len(data["A"]) = 3
  /\ data["A"][1].vendor_id = Num(1) /\ data["A"][1].vendor_name = Str(<<"acme">>)
  /\ data["A"][2].vendor_id = Num(2) /\ data["A"][2].vendor_name = Str(<<>>)

\* C23: a read of a record entity during which a reference table failed to
\* load returns every parsed record, the name fields of the kinds that failed
\* to load blank, from the remote store and from the fallback source alike.
C23_FailedLoadsGiveBlankNames ==
  \A p \in Procs :
    ReadReturned(p) /\ ~AllLoaded(p) =>
      /\ Len(data[p]) = Len(Parsed(p))
      /\ \A r \in 1..Len(data[p]), k \in ResolvedKinds(entity) \ refs[p] :
           data[p][r][NameField(k)] = Str(<<>>)

\* C29: the table a read of a record entity returns is the parsed table
\* itself, no name field changed, when one reference getter rejected, also for
\* the kinds whose getter answered; it has every name field set from the
\* lookup when all answered.
C29_ResolutionAllOrNothing ==
  \A p \in Procs :
    ReadReturned(p) =>
      IF AllLoaded(p) THEN NamesFollowIds(p) ELSE data[p] = Parsed(p)

C29_Witness ==
  /\ ReadReturned("A") /\ refs["A"] = {"user"}
  /\ entity = "celllines" /\ source["A"] = "remote"
  /\ Len(data["A"]) = 3
  /\ data["A"][1].user_id = Num(1) /\ data["A"][1].user_name = Str(<<>>)

----------------------------------------------------------------------------
(* Properties of getCSVContent *)

\* the GET of the read of the cycle was answered with the file
FileAnswered(p) ==
  req[p].type = "read" /\ trail[p] # <<>> /\ Ok(trail[p][1].status)

\* the read took the content of the remote file for its table
TookRemoteContent(p) ==
  /\ pc[p] = "resolved" /\ source[p] = "remote"
  /\ data[p] \in {ParseRemote(entity, remote.content),
                  ResolveNames(entity, ParseRemote(entity, remote.content))}

\* getCSVContent threw the error: the read went on to the fallback source
ReadThrew(p, kind) ==
  /\ source[p] # "remote"
  /\ pc[p] = "local" => err[p] = Err(kind, 0)

\* C26: a read whose GET was answered with the file takes the content of the
\* file when the body carries it inline, in base64 or as it is, and otherwise
\* when the body carries a download link whose fetch succeeds; it fails with
\* the download error when that fetch fails, and with the unable-to-decode
\* error only when the body carries neither content nor link.
C26_ContentInlineOrDownloaded ==
  \A p \in Procs :
    FileAnswered(p) =>
      LET body == trail[p][1].body
          raw  == trail[p][1].raw
      IN  /\ body.content # <<>> => TookRemoteContent(p)
          /\ body.content = <<>> /\ body.download_url /\ raw.ok => TookRemoteContent(p)
          /\ body.content = <<>> /\ body.download_url /\ ~raw.ok =>
               ReadThrew(p, "download_failed")
          /\ body.content = <<>> /\ ~body.download_url => ReadThrew(p, "unable_to_decode")
          /\ err[p] = Err("unable_to_decode", 0) =>
               body.content = <<>> /\ ~body.download_url

C26_Witness ==
  /\ FileAnswered("A") /\ entity = "plasmids"
  /\ trail["A"][1].body.content = <<>> /\ trail["A"][1].body.download_url
  /\ TookRemoteContent("A")
  /\ Len(data["A"]) = 3

----------------------------------------------------------------------------
(* Further properties of the write cycle *)

\* C27: a call of updateCSV sends one PUT at most, and a PUT without sha only
\* right after a getFile answered 404: no PUT without sha follows a PUT that
\* carried the sha and failed.
C27_NoCreateAfterFailedPut ==
  \A p \in Procs :
    /\ Cardinality(SentPuts(p)) <= 1
    /\ \A k \in SentPuts(p) :
         trail[p][k].presented = NoSha =>
           k > 1 /\ trail[p][k - 1].op = "GET" /\ trail[p][k - 1].status = 404

\* the request of the cycle names an id that no record of the table it read has
NoSuchId(p) ==
  /\ source[p] # "none"
  /\ \A r \in 1..Len(data[p]) : data[p][r].id # req[p].id

\* C28: an update naming an id no record of the table just read has is
\* rejected with the item-not-found error, sends no request after the read and
\* commits nothing; a delete naming such an id raises no such error and goes
\* on to commit the table with the records it read, every persisted field
\* serialized as for an unchanged table.
C28_MissingIdUpdateThrowsDeleteCommits ==
  \A p \in Procs :
    NoSuchId(p) =>
      /\ req[p].type = "update" =>
           /\ pc[p] = "rejected" /\ err[p] = Err("item_not_found", 0)
           /\ SentPuts(p) = {} /\ ~Serialized(p)
           /\ \A k \in 1..Len(log) : log[k].by # p
      /\ req[p].type = "delete" =>
           /\ err[p] # Err("item_not_found", 0)
           /\ pc[p] \in {"getFile", "put", "create", "resolved", "rejected"}
           /\ csv[p] = dataToCSV(data[p], Headers)
           /\ pc[p] = "resolved" =>
                /\ log # <<>> /\ log[Len(log)].content = EncodeContent(csv[p])
                /\ Len(ReadBack(remote.content)) = Len(data[p])
                /\ \A r \in 1..Len(data[p]) : ReadBack(remote.content)[r].id = data[p][r].id

C28_Witness ==
  /\ req["A"].type = "delete" /\ req["A"].id = Num(4)
  /\ source["A"] = "remote" /\ Len(data["A"]) = 3
  /\ NoSuchId("A")
  /\ pc["A"] = "resolved" /\ Len(log) = 1

----------------------------------------------------------------------------
(* Properties of the construction *)

\* C30 as stated: the data manager is enabled for the remote store in every
\* reachable state.
C30_AlwaysRemoteEnabled == useGitHub

\* C30 amended: the data manager is enabled for the remote store whatever
\* the token state, unless the read of the storage threw at construction;
\* only then does a write fail on the configuration check or a read go
\* to the fallback source without a remote attempt.
C30_EnabledUnlessStorageBlocked ==
  /\ useGitHub <=> storedToken # "blocked"
  /\ \A p \in Procs :
       storedToken # "blocked" =>
         /\ err[p] # Err("not_configured", 0)
         /\ source[p] = "local" => err[p] # NoErr

C30_Witness ==
  /\ storedToken = "none" /\ configToken = "none" /\ useGitHub
  /\ Writing("A") /\ pc["A"] = "rejected"
  /\ err["A"] = Err("auth_required", 0)
====
